---- MODULE Spec2Model ----
(***************************************************************************)
(* Model of the NX-GZIP hardware interface, power-gzip/inc_nx/nxu.h:       *)
(* the big-endian register words, the getnn/putnn field accessors, the     *)
(* field table (REG_mask / REG_offset), the completion codes and           *)
(* extension bits, the function codes, and the job protocol built on them. *)
(*                                                                         *)
(* A 32-bit value is the set of its 1 bits, bit 0 being the least          *)
(* significant: & is \cap, | is \cup, ~ is the complement in 0..31.        *)
(* A 32-bit object in memory is its four bytes in address order, each byte *)
(* the set of its 1 bits (0..7).                                           *)
(***************************************************************************)
EXTENDS Integers, Sequences, FiniteSets, TLC

VARIABLES
    le,       \* the host is little-endian (P9 runs either way)
    shl_ub,   \* what this build makes of the undefined shift 1U << 32
    mem,      \* the register words of one nx_gzip_crb_cpb_t, as bytes
    pk,       \* the accessor exerciser: one putnn followed by one getnn
    cfg,      \* the stream's operation: op, huffman, wantCounts, singleBlockSuspend
    state,    \* the stream's completion flag
    phase,    \* where the current job is: idle, inflight, completed
    njobs,    \* jobs handed to the job-execution collaborator
    resume,   \* resume fields and checksums captured from the last outcome
    outcome,  \* the last outcome interpret returned
    err,      \* the error the last call failed with, or "none"
    dd,       \* describe: the buffers given, the nx_dde_t built, the result
    rc,       \* resolve: the arguments given and the result
    lay,      \* the compiler laying out one of the header's aggregates
    cex,      \* the csb_ce_* predicates evaluated on a completed status
    td        \* nx_time_diff: two timebase reads and the difference returned

auxVars == <<dd, rc, lay, cex, td>>
vars == <<le, shl_ub, mem, pk, cfg, state, phase, njobs, resume, outcome, err, dd, rc, lay, cex, td>>
streamVars == <<cfg, state, phase, njobs, resume, outcome, err>>

\* A component that takes no part in the specification at hand.
Off == [pc |-> "off"]
AuxIdle == dd = Off /\ rc = Off /\ lay = Off /\ cex = Off /\ td = Off

(***************************************************************************)
(* 32-bit values                                                           *)
(***************************************************************************)
Bits32 == 0..31

\* The value of a natural number below 2^31.
Pow2(n) == IF n = 0 THEN 1 ELSE 2^n
U(n) == {i \in 0..30 : (n \div Pow2(i)) % 2 = 1}

\* The natural number a value below 2^31 stands for.
RECURSIVE ToNat(_)
ToNat(v) ==
    IF v = {} THEN 0
    ELSE LET i == CHOOSE j \in v : TRUE IN Pow2(i) + ToNat(v \ {i})

\* x << s and x >> s on uint32_t, 0 <= s <= 31: bits shifted out are lost.
shl(x, s) == {i + s : i \in x} \cap Bits32
shr(x, s) == {i - s : i \in x} \cap Bits32

\* x - 1 on uint32_t (0 - 1 wraps to 0xFFFFFFFF).
Sub1(x) ==
    IF x = {} THEN Bits32
    ELSE LET l == CHOOSE j \in x : \A k \in x : j <= k
         IN (x \ {l}) \cup {i \in Bits32 : i < l}

\* 1U << x. For x = 32 the shift is undefined in C: the build decides.
Shl1U(x) == IF x < 32 THEN {x} ELSE shl_ub

size_mask_wide(x) == {i \in Bits32 : i <= x}
size_mask(x) == Sub1(Shl1U(x))

(***************************************************************************)
(* Memory and byte order                                                   *)
(***************************************************************************)
Byte == SUBSET (0..7)

\* The host's load and store of a uint32_t lvalue (ST.REG).
load32(m) ==
    UNION {{8 * (IF le THEN k - 1 ELSE 4 - k) + b : b \in m[k]} : k \in 1..4}
store32(v) ==
    [k \in 1..4 |->
        LET n == IF le THEN k - 1 ELSE 4 - k
        IN {i - 8 * n : i \in {j \in v : j \div 8 = n}}]

bswap32(v) == {8 * (3 - (i \div 8)) + (i % 8) : i \in v}

be32toh(v) == IF le THEN bswap32(v) ELSE v
htobe32(v) == IF le THEN bswap32(v) ELSE v

\* How the coprocessor itself stores a register: always big-endian.
storeBE(v) == [k \in 1..4 |-> {i - 8 * (4 - k) : i \in {j \in v : j \div 8 = 4 - k}}]

(***************************************************************************)
(* The field table: REG##_mask and REG##_offset                            *)
(***************************************************************************)
dde_count_mask == size_mask(8)
dde_count_offset == 23
csb_v_mask == size_mask(1)
csb_v_offset == 0
csb_f_mask == size_mask(1)
csb_f_offset == 6
csb_cs_mask == size_mask(8)
csb_cs_offset == 15
csb_cc_mask == size_mask(8)
csb_cc_offset_cs == csb_cs_offset
csb_cc_offset == 23
csb_ce_mask == size_mask(8)
csb_ce_offset == 31
ccb_cm_mask == size_mask(3)
ccb_cm_offset == 31
vas_buf_num_mask == size_mask(6)
vas_buf_num_offset == 5
send_wc_id_mask == size_mask(16)
send_wc_id_offset == 31
recv_wc_id_mask == size_mask(16)
recv_wc_id_offset == 31
vas_invalid_mask == size_mask(1)
vas_invalid_offset == 31
nxsf_t_mask == size_mask(1)
nxsf_t_offset == 23
nxsf_fs_mask == size_mask(8)
nxsf_fs_offset == 31
in_histlen_mask == size_mask(12)
in_histlen_offset == 11
in_dhtlen_mask == size_mask(12)
in_dhtlen_offset == 31
in_subc_mask == size_mask(3)
in_subc_offset == 31
in_sfbt_mask == size_mask(4)
in_sfbt_offset_low == in_dhtlen_offset
in_sfbt_offset == 15
in_rembytecnt_mask == size_mask(16)
in_rembytecnt_offset == 31
out_tebc_mask == size_mask(3)
out_tebc_offset == 15
out_subc_mask == size_mask(16)
out_subc_offset == 31
out_sfbt_mask == size_mask(4)
out_sfbt_offset == 15
out_rembytecnt_mask == size_mask(16)
out_rembytecnt_offset == 31
out_dhtlen_mask == size_mask(12)
out_dhtlen_offset == 31
gzip_fc_mask == size_mask(8)
gzip_fc_offset == 31
crb_c_mask == size_mask(1)
crb_c_offset == 28
crb_at_mask == size_mask(1)
crb_at_offset == 30

\* The declared sub-word register fields.
Regs ==
    {"dde_count", "csb_v", "csb_f", "csb_cs", "csb_cc", "csb_ce", "ccb_cm",
     "vas_buf_num", "send_wc_id", "recv_wc_id", "vas_invalid", "nxsf_t",
     "nxsf_fs", "in_histlen", "in_dhtlen", "in_subc", "in_sfbt",
     "in_rembytecnt", "out_tebc", "out_subc", "out_sfbt", "out_rembytecnt",
     "out_dhtlen", "gzip_fc", "crb_c", "crb_at"}

\* "reg" stands for a field of any width pk.w at any offset pk.off, declared
\* the way the header declares its fields.
Mask(REG) ==
    CASE REG = "dde_count" -> dde_count_mask
      [] REG = "csb_v" -> csb_v_mask
      [] REG = "csb_f" -> csb_f_mask
      [] REG = "csb_cs" -> csb_cs_mask
      [] REG = "csb_cc" -> csb_cc_mask
      [] REG = "csb_ce" -> csb_ce_mask
      [] REG = "ccb_cm" -> ccb_cm_mask
      [] REG = "vas_buf_num" -> vas_buf_num_mask
      [] REG = "send_wc_id" -> send_wc_id_mask
      [] REG = "recv_wc_id" -> recv_wc_id_mask
      [] REG = "vas_invalid" -> vas_invalid_mask
      [] REG = "nxsf_t" -> nxsf_t_mask
      [] REG = "nxsf_fs" -> nxsf_fs_mask
      [] REG = "in_histlen" -> in_histlen_mask
      [] REG = "in_dhtlen" -> in_dhtlen_mask
      [] REG = "in_subc" -> in_subc_mask
      [] REG = "in_sfbt" -> in_sfbt_mask
      [] REG = "in_rembytecnt" -> in_rembytecnt_mask
      [] REG = "out_tebc" -> out_tebc_mask
      [] REG = "out_subc" -> out_subc_mask
      [] REG = "out_sfbt" -> out_sfbt_mask
      [] REG = "out_rembytecnt" -> out_rembytecnt_mask
      [] REG = "out_dhtlen" -> out_dhtlen_mask
      [] REG = "gzip_fc" -> gzip_fc_mask
      [] REG = "crb_c" -> crb_c_mask
      [] REG = "crb_at" -> crb_at_mask
      [] REG = "reg" -> size_mask(pk.w)

Offset(REG) ==
    CASE REG = "dde_count" -> dde_count_offset
      [] REG = "csb_v" -> csb_v_offset
      [] REG = "csb_f" -> csb_f_offset
      [] REG = "csb_cs" -> csb_cs_offset
      [] REG = "csb_cc" -> csb_cc_offset
      [] REG = "csb_ce" -> csb_ce_offset
      [] REG = "ccb_cm" -> ccb_cm_offset
      [] REG = "vas_buf_num" -> vas_buf_num_offset
      [] REG = "send_wc_id" -> send_wc_id_offset
      [] REG = "recv_wc_id" -> recv_wc_id_offset
      [] REG = "vas_invalid" -> vas_invalid_offset
      [] REG = "nxsf_t" -> nxsf_t_offset
      [] REG = "nxsf_fs" -> nxsf_fs_offset
      [] REG = "in_histlen" -> in_histlen_offset
      [] REG = "in_dhtlen" -> in_dhtlen_offset
      [] REG = "in_subc" -> in_subc_offset
      [] REG = "in_sfbt" -> in_sfbt_offset
      [] REG = "in_rembytecnt" -> in_rembytecnt_offset
      [] REG = "out_tebc" -> out_tebc_offset
      [] REG = "out_subc" -> out_subc_offset
      [] REG = "out_sfbt" -> out_sfbt_offset
      [] REG = "out_rembytecnt" -> out_rembytecnt_offset
      [] REG = "out_dhtlen" -> out_dhtlen_offset
      [] REG = "gzip_fc" -> gzip_fc_offset
      [] REG = "crb_c" -> crb_c_offset
      [] REG = "crb_at" -> crb_at_offset
      [] REG = "reg" -> pk.off

\* The 32-bit word a field name designates: the members of one union share
\* their word.
WordOf(REG) ==
    CASE REG \in {"csb_v", "csb_f", "csb_cs", "csb_cc", "csb_ce"} -> "csb_w0"
      [] REG \in {"vas_buf_num", "send_wc_id"} -> "stamp_w0"
      [] REG = "recv_wc_id" -> "stamp_w1"
      [] REG \in {"nxsf_t", "nxsf_fs"} -> "stamp_w2"
      [] REG = "vas_invalid" -> "stamp_w3"
      [] REG \in {"in_histlen", "in_subc"} -> "in_w2"
      [] REG \in {"in_sfbt", "in_rembytecnt", "in_dhtlen"} -> "in_w3"
      [] REG \in {"out_tebc", "out_subc"} -> "out_w2"
      [] REG \in {"out_sfbt", "out_rembytecnt", "out_dhtlen"} -> "out_w3"
      [] REG \in {"crb_c", "crb_at"} -> "crb_w3"
      [] OTHER -> REG

Words ==
    {"gzip_fc", "crb_w3", "dde_count", "ccb_cm", "stamp_w0", "stamp_w1",
     "stamp_w2", "stamp_w3", "csb_w0", "tpbc", "in_adler", "in_crc", "in_w2",
     "in_w3", "out_adler", "out_crc", "out_w2", "out_w3", "reg"}

(***************************************************************************)
(* The access macros                                                       *)
(***************************************************************************)
get32(ST, REG) == be32toh(load32(ST[WordOf(REG)]))
put32_native(ST, REG, X) == [ST EXCEPT ![WordOf(REG)] = store32(X)]
put32(ST, REG, X) == [ST EXCEPT ![WordOf(REG)] = store32(htobe32(X))]

getnn(ST, REG) == shr(get32(ST, REG), 31 - Offset(REG)) \cap Mask(REG)

unget32_keep(ST, REG) == get32(ST, REG)
unget32(ST, REG) == get32(ST, REG) \ shl(Mask(REG), 31 - Offset(REG))

putnn(ST, REG, X) ==
    [ST EXCEPT ![WordOf(REG)] =
        store32(htobe32(unget32(ST, REG) \cup shl(X \cap Mask(REG), 31 - Offset(REG))))]

clear_regs == [w \in Words |-> storeBE({})]

(***************************************************************************)
(* The accessor exerciser: putnn(ST, REG, X) then getnn(ST, REG), for the  *)
(* declared fields and for a field of any width at any offset that fits    *)
(* its word (31 - offset + width <= 32).                                   *)
(***************************************************************************)
Even == {i \in Bits32 : i % 2 = 0}
SampleWords == {{}, Bits32, Even, Bits32 \ Even, {0, 3, 4, 9, 14, 15, 16, 21, 26, 30, 31}}

PkIdle == [pc |-> "off", reg |-> "reg", w |-> 1, off |-> 31, x |-> {}, before |-> clear_regs, got |-> {}]

StreamIdle ==
    /\ cfg = [op |-> "Compress", huffman |-> "Fixed", wantCounts |-> FALSE, singleBlockSuspend |-> FALSE]
    /\ state = "InProgress"
    /\ phase = "idle"
    /\ njobs = 0
    /\ resume = [subc |-> {}, sfbt |-> {}, rembytecnt |-> {}, crc |-> {}, adler |-> {}]
    /\ outcome = [kind |-> "none"]
    /\ err = "none"

InitPack ==
    /\ le \in BOOLEAN
    /\ shl_ub \in {{}, {0}}
    /\ \E r \in Regs \cup {"reg"}, x \in SampleWords :
        \E w \in (IF r = "reg" THEN 1..32 ELSE {0}) :
        \E o \in (IF r = "reg" THEN {k \in 0..31 : (31 - k) + w <= 32} ELSE {0}) :
            pk = [pc |-> "start", reg |-> r, w |-> w, off |-> o, x |-> x,
                  before |-> clear_regs, got |-> {}]
    /\ \E c \in SampleWords : mem = [clear_regs EXCEPT ![WordOf(pk.reg)] = storeBE(c)]
    /\ StreamIdle
    /\ AuxIdle

PkPut ==
    /\ pk.pc = "start"
    /\ mem' = putnn(mem, pk.reg, pk.x)
    /\ pk' = [pk EXCEPT !.pc = "put", !.before = mem]
    /\ UNCHANGED <<auxVars, le, shl_ub, streamVars>>

PkGet ==
    /\ pk.pc = "put"
    /\ pk' = [pk EXCEPT !.pc = "got", !.got = getnn(mem, pk.reg)]
    /\ UNCHANGED <<auxVars, le, shl_ub, mem, streamVars>>

NextPack == PkPut \/ PkGet
SpecPack == InitPack /\ [][NextPack]_vars

\* The bits of its word that a field occupies; its width.
FieldBits(REG) == shl(Mask(REG), 31 - Offset(REG))
BelowBit(w) == {i \in Bits32 : i < w}

\* C1 as stated: packing v into a field of width w in 1..32 at offset o
\* (o = 31 - offset, o + w <= 32) and unpacking it yields v mod 2^w.
C1_RoundTripUpTo32 ==
    (pk.pc = "got" /\ pk.reg = "reg") => pk.got = pk.x \cap BelowBit(pk.w)

\* C1, amended: the round trip yields v mod 2^w for every width w in 1..31,
\* every offset that fits, every prior word and every value v (width 32 is
\* outside size_mask's domain: 1U << 32 is undefined).
C1_RoundTrip ==
    (pk.pc = "got" /\ pk.reg = "reg" /\ pk.w <= 31) => pk.got = pk.x \cap BelowBit(pk.w)

C1_Witness ==
    /\ pk.pc = "got" /\ pk.reg = "reg" /\ pk.w = 31 /\ pk.off = 31
    /\ pk.x = Bits32
    /\ get32(pk.before, "reg") = {}
    /\ pk.got = BelowBit(31)

\* What putnn does to the words of the block, whatever X is: the field's bits
\* are X's low bits, every other bit of the word and every other word is as
\* before.
PutFrame ==
    /\ get32(mem, pk.reg) \cap FieldBits(pk.reg)
         = shl(pk.x \cap Mask(pk.reg), 31 - Offset(pk.reg))
    /\ get32(mem, pk.reg) \ FieldBits(pk.reg)
         = get32(pk.before, pk.reg) \ FieldBits(pk.reg)
    /\ \A w \in Words \ {WordOf(pk.reg)} : mem[w] = pk.before[w]

\* C2 as stated: putnn of any X into a declared field rewrites exactly the
\* field's bits, and every other field sharing the word reads as before.
C2_FramedEveryField ==
    (pk.pc = "put" /\ pk.reg \in Regs) =>
        /\ PutFrame
        /\ \A G \in Regs \ {pk.reg} :
            WordOf(G) = WordOf(pk.reg) => getnn(mem, G) = getnn(pk.before, G)

\* C2, amended: putnn of any X into a declared field rewrites exactly the
\* field's bits, every other bit of the word is unchanged, and every other
\* field of the word whose bits do not overlap the written field reads as
\* before (in_rembytecnt/in_dhtlen and out_rembytecnt/out_dhtlen are
\* overlapping views of the same bits).
C2_Framed ==
    (pk.pc = "put" /\ pk.reg \in Regs) =>
        /\ PutFrame
        /\ \A G \in Regs \ {pk.reg} :
            (WordOf(G) = WordOf(pk.reg) /\ FieldBits(G) \cap FieldBits(pk.reg) = {})
                => getnn(mem, G) = getnn(pk.before, G)

C2_Witness ==
    /\ pk.pc = "put" /\ pk.reg = "csb_cc"
    /\ pk.x = Bits32
    /\ getnn(pk.before, "csb_cc") = U(85)
    /\ getnn(mem, "csb_cc") = U(255)
    /\ getnn(mem, "csb_ce") = U(85) /\ getnn(mem, "csb_cs") = U(85)
    /\ getnn(mem, "csb_v") = {} /\ getnn(mem, "csb_f") = {}

(***************************************************************************)
(* Completion extension, function codes, completion codes                  *)
(***************************************************************************)
get_csb_ce(ST) == getnn(ST, "csb_ce")
get_csb_ce_ms3b_unshifted(ST) == get_csb_ce(ST)
get_csb_ce_ms3b(ST) == shr(get_csb_ce(ST), 5)

CSB_CE_PARTIAL == 4
CSB_CE_TERMINATE == 2
CSB_CE_TPBC_VALID == 1

csb_ce_termination(X) == (X \cap U(CSB_CE_TERMINATE)) # {}
csb_ce_check_completion(X) == ~csb_ce_termination(X)
csb_ce_partial_completion(X) == (X \cap U(CSB_CE_PARTIAL)) # {}
csb_ce_full_completion(X) == ~csb_ce_partial_completion(X)
csb_ce_tpbc_valid(X) == (X \cap U(CSB_CE_TPBC_VALID)) # {}
csb_ce_default_err(X) == csb_ce_termination(X)
csb_ce_cc3_partial(X) == csb_ce_partial_completion(X)

\* ((X)&(CSB_CE_PARTIAL | CSB_CE_TERMINATE) == 0): == binds tighter than &,
\* so X is and-ed with the value of the comparison, 1 or 0.
csb_ce_cc64(X) ==
    (X \cap U(IF (U(CSB_CE_PARTIAL) \cup U(CSB_CE_TERMINATE)) = U(0) THEN 1 ELSE 0)) # {}

GZIP_FC_LIMIT_MASK == 1
GZIP_FC_COMPRESS_FHT == 0
GZIP_FC_COMPRESS_DHT == 2
GZIP_FC_COMPRESS_FHT_COUNT == 4
GZIP_FC_COMPRESS_DHT_COUNT == 6
GZIP_FC_COMPRESS_RESUME_FHT == 8
GZIP_FC_COMPRESS_RESUME_DHT == 10
GZIP_FC_COMPRESS_RESUME_FHT_COUNT == 12
GZIP_FC_COMPRESS_RESUME_DHT_COUNT == 14
GZIP_FC_DECOMPRESS == 16
GZIP_FC_DECOMPRESS_SINGLE_BLK_N_SUSPEND_unset == GZIP_FC_DECOMPRESS
GZIP_FC_DECOMPRESS_SINGLE_BLK_N_SUSPEND == 18
GZIP_FC_DECOMPRESS_RESUME_unset == GZIP_FC_DECOMPRESS
GZIP_FC_DECOMPRESS_RESUME == 20
GZIP_FC_DECOMPRESS_RESUME_SINGLE_BLK_N_SUSPEND == 22
GZIP_FC_WRAP == 30

fc_is_compress(fc) == (U(fc) \cap U(16)) = {}
fc_has_count(fc) == fc_is_compress(fc) /\ (U(fc) \cap U(4)) # {}

ERR_NX_OK == 0
ERR_NX_ALIGNMENT == 1
ERR_NX_OPOVERLAP == 2
ERR_NX_DATA_LENGTH == 3
ERR_NX_TRANSLATION == 5
ERR_NX_PROTECTION == 6
ERR_NX_EXTERNAL_UE7 == 7
ERR_NX_INVALID_OP == 8
ERR_NX_PRIVILEGE == 9
ERR_NX_INTERNAL_UE == 10
ERR_NX_EXTERN_UE_WR == 12
ERR_NX_TARGET_SPACE == 13
ERR_NX_EXCESSIVE_DDE == 14
ERR_NX_TRANSL_WR == 15
ERR_NX_PROTECT_WR == 16
ERR_NX_SUBFUNCTION == 17
ERR_NX_FUNC_ABORT == 18
ERR_NX_BYTE_MAX == 19
ERR_NX_CORRUPT_CRB == 20
ERR_NX_INVALID_CRB == 21
ERR_NX_INVALID_DDE == 30
ERR_NX_SEGMENTED_DDL == 31
ERR_NX_DDE_OVERFLOW == 33
ERR_NX_TPBC_GT_SPBC == 64
ERR_NX_MISSING_CODE == 66
ERR_NX_INVALID_DIST == 67
ERR_NX_INVALID_DHT == 68
ERR_NX_EXTERNAL_UE90 == 90
ERR_NX_WDOG_TIMER == 224
ERR_NX_AT_FAULT == 250
ERR_NX_INTR_SERVER == 252
ERR_NX_UE253 == 253
ERR_NX_NO_HW == 254
ERR_NX_HUNG_OP == 255
ERR_NX_END == 256

\* The documented completion codes.
ERR_NX_CODES ==
    {ERR_NX_OK, ERR_NX_ALIGNMENT, ERR_NX_OPOVERLAP, ERR_NX_DATA_LENGTH,
     ERR_NX_TRANSLATION, ERR_NX_PROTECTION, ERR_NX_EXTERNAL_UE7,
     ERR_NX_INVALID_OP, ERR_NX_PRIVILEGE, ERR_NX_INTERNAL_UE,
     ERR_NX_EXTERN_UE_WR, ERR_NX_TARGET_SPACE, ERR_NX_EXCESSIVE_DDE,
     ERR_NX_TRANSL_WR, ERR_NX_PROTECT_WR, ERR_NX_SUBFUNCTION,
     ERR_NX_FUNC_ABORT, ERR_NX_BYTE_MAX, ERR_NX_CORRUPT_CRB,
     ERR_NX_INVALID_CRB, ERR_NX_INVALID_DDE, ERR_NX_SEGMENTED_DDL,
     ERR_NX_DDE_OVERFLOW, ERR_NX_TPBC_GT_SPBC, ERR_NX_MISSING_CODE,
     ERR_NX_INVALID_DIST, ERR_NX_INVALID_DHT, ERR_NX_EXTERNAL_UE90,
     ERR_NX_WDOG_TIMER, ERR_NX_AT_FAULT, ERR_NX_INTR_SERVER, ERR_NX_UE253,
     ERR_NX_NO_HW, ERR_NX_HUNG_OP}

INIT_CRC == 0
INIT_ADLER == 1

(***************************************************************************)
(* Function Code Registry (spec 4.2), over the GZIP_FC_* table             *)
(***************************************************************************)
Resolve(op, huffman, wantCounts, resumed, singleBlockSuspend) ==
    CASE op = "Wrap" -> GZIP_FC_WRAP
      [] op = "Decompress" ->
            IF resumed
            THEN (IF singleBlockSuspend
                  THEN GZIP_FC_DECOMPRESS_RESUME_SINGLE_BLK_N_SUSPEND
                  ELSE GZIP_FC_DECOMPRESS_RESUME)
            ELSE (IF singleBlockSuspend
                  THEN GZIP_FC_DECOMPRESS_SINGLE_BLK_N_SUSPEND
                  ELSE GZIP_FC_DECOMPRESS)
      [] op = "Compress" ->
            IF resumed
            THEN (IF huffman = "Fixed"
                  THEN (IF wantCounts THEN GZIP_FC_COMPRESS_RESUME_FHT_COUNT
                                      ELSE GZIP_FC_COMPRESS_RESUME_FHT)
                  ELSE (IF wantCounts THEN GZIP_FC_COMPRESS_RESUME_DHT_COUNT
                                      ELSE GZIP_FC_COMPRESS_RESUME_DHT))
            ELSE (IF huffman = "Fixed"
                  THEN (IF wantCounts THEN GZIP_FC_COMPRESS_FHT_COUNT
                                      ELSE GZIP_FC_COMPRESS_FHT)
                  ELSE (IF wantCounts THEN GZIP_FC_COMPRESS_DHT_COUNT
                                      ELSE GZIP_FC_COMPRESS_DHT))

(***************************************************************************)
(* Command Block Codec (spec 4.3)                                          *)
(***************************************************************************)
\* The parameter-block input of a job: seeds and resume fields.
FreshParams ==
    [subc |-> {}, sfbt |-> {}, rembytecnt |-> {}, crc |-> U(INIT_CRC), adler |-> U(INIT_ADLER)]

ValidSet(ST) == getnn(ST, "csb_v") # {}

\* encode: the function code and the parameter-block input region, written
\* through the access macros.
Encode(ST, fc, params) ==
    LET a == putnn(ST, "gzip_fc", U(fc))
        b == put32(a, "in_adler", params.adler)
        c == put32(b, "in_crc", params.crc)
        d == putnn(c, "in_subc", params.subc)
        e == putnn(d, "in_sfbt", params.sfbt)
    IN putnn(e, "in_rembytecnt", params.rembytecnt)

\* decode: the status block and the parameter-block output region, read
\* through the access macros.
DecodeStatus(ST) ==
    [cc |-> ToNat(getnn(ST, "csb_cc")),
     ce |-> get_csb_ce_ms3b(ST),
     tpbc |-> get32(ST, "tpbc")]

DecodeOutput(ST) ==
    [subc |-> getnn(ST, "out_subc"),
     sfbt |-> getnn(ST, "out_sfbt"),
     rembytecnt |-> getnn(ST, "out_rembytecnt"),
     crc |-> get32(ST, "out_crc"),
     adler |-> get32(ST, "out_adler")]

(***************************************************************************)
(* Completion Interpreter (spec 4.4, 7)                                    *)
(***************************************************************************)
Interpret(status) ==
    IF status.cc \notin ERR_NX_CODES
    THEN [kind |-> "Fault", fault |-> "Unknown",
          processedBytesValid |-> csb_ce_tpbc_valid(status.ce)]
    ELSE IF status.cc = ERR_NX_TPBC_GT_SPBC
    THEN [kind |-> "Success", processedBytes |-> status.tpbc, expanded |-> TRUE]
    ELSE IF status.cc # ERR_NX_OK
    THEN [kind |-> "Fault", fault |-> "Code", cc |-> status.cc,
          processedBytesValid |-> csb_ce_tpbc_valid(status.ce)]
    ELSE IF csb_ce_termination(status.ce)
    THEN [kind |-> "Fault", fault |-> "Corrupted",
          processedBytesValid |-> csb_ce_tpbc_valid(status.ce)]
    ELSE IF csb_ce_partial_completion(status.ce)
    THEN [kind |-> "Suspended"]
    ELSE IF csb_ce_tpbc_valid(status.ce)
    THEN [kind |-> "Success", processedBytes |-> status.tpbc, expanded |-> FALSE]
    ELSE [kind |-> "Fault", fault |-> "Indeterminate", processedBytesValid |-> FALSE]

(***************************************************************************)
(* Stream Resume State Machine (spec 4.5) and the job-execution            *)
(* collaborator (spec 6, nxu_run_job)                                      *)
(***************************************************************************)
MaxJobs == 2

Terminal == {"Finished", "Faulted"}

onCompletion(s, o) ==
    CASE o.kind = "Success" -> "Finished"
      [] o.kind = "Suspended" -> "Suspended"
      [] o.kind = "Fault" -> "Faulted"

StreamConfigs ==
    {[op |-> "Compress", huffman |-> h, wantCounts |-> c, singleBlockSuspend |-> FALSE] :
        h \in {"Fixed", "Dynamic"}, c \in BOOLEAN}
    \cup
    {[op |-> "Decompress", huffman |-> "Fixed", wantCounts |-> FALSE, singleBlockSuspend |-> b] :
        b \in BOOLEAN}

NoResume == [subc |-> {}, sfbt |-> {}, rembytecnt |-> {}, crc |-> {}, adler |-> {}]

Init ==
    /\ le \in BOOLEAN
    /\ shl_ub = {}
    /\ pk = PkIdle
    /\ mem = clear_regs
    /\ cfg \in StreamConfigs
    /\ state = "InProgress"
    /\ phase = "idle"
    /\ njobs = 0
    /\ resume = NoResume
    /\ outcome = [kind |-> "none"]
    /\ err = "none"
    /\ AuxIdle

\* The caller clears the status block's valid flag between jobs.
ClearValid ==
    /\ phase = "idle"
    /\ ValidSet(mem)
    /\ mem' = putnn(mem, "csb_v", {})
    /\ UNCHANGED <<auxVars, le, shl_ub, pk, cfg, state, phase, njobs, resume, outcome, err>>

AdvanceAlways ==
    /\ phase = "idle"
    /\ njobs < MaxJobs
    /\ IF ValidSet(mem)
       THEN /\ err' = "AlreadySubmitted"
            /\ UNCHANGED <<mem, state, phase, njobs, outcome>>
       ELSE /\ mem' = Encode(mem,
                        Resolve(cfg.op, cfg.huffman, cfg.wantCounts, njobs > 0,
                                cfg.singleBlockSuspend),
                        IF njobs > 0 THEN resume ELSE FreshParams)
            /\ state' = "InProgress"
            /\ phase' = "inflight"
            /\ njobs' = njobs + 1
            /\ outcome' = [kind |-> "none"]
            /\ err' = "none"
    /\ UNCHANGED <<auxVars, le, shl_ub, pk, cfg, resume>>

\* advance: refuse a terminated stream; otherwise encode the next job (the
\* first one fresh, every later one as a resume of the captured outcome) and
\* hand it to the collaborator.
Advance ==
    /\ phase = "idle"
    /\ IF state \in Terminal
       THEN /\ err' = "StreamTerminated"
            /\ UNCHANGED <<mem, state, phase, njobs, outcome>>
       ELSE /\ njobs < MaxJobs
            /\ IF ValidSet(mem)
               THEN /\ err' = "AlreadySubmitted"
                    /\ UNCHANGED <<mem, state, phase, njobs, outcome>>
               ELSE /\ mem' = Encode(mem,
                                Resolve(cfg.op, cfg.huffman, cfg.wantCounts, njobs > 0,
                                        cfg.singleBlockSuspend),
                                IF njobs > 0 THEN resume ELSE FreshParams)
                    /\ state' = "InProgress"
                    /\ phase' = "inflight"
                    /\ njobs' = njobs + 1
                    /\ outcome' = [kind |-> "none"]
                    /\ err' = "none"
    /\ UNCHANGED <<auxVars, le, shl_ub, pk, cfg, resume>>

\* What the coprocessor reports. Its registers are big-endian; bit numbers
\* are the hardware's (bit 0 the most significant of the word).
SampleCodes == {ERR_NX_OK, ERR_NX_DATA_LENGTH, ERR_NX_TPBC_GT_SPBC, 4}
Mixed == {0, 3, 4, 9, 14, 15, 16, 21, 26, 30, 31}
OutSamples ==
    {[subc |-> 0, sfbt |-> 0, rembytecnt |-> 0, tebc |-> 0,
      crc |-> {}, adler |-> U(1), tpbc |-> {}],
     [subc |-> 5, sfbt |-> 9, rembytecnt |-> 65535, tebc |-> 7,
      crc |-> Mixed, adler |-> Bits32 \ Mixed, tpbc |-> U(4096)],
     [subc |-> 2283, sfbt |-> 13, rembytecnt |-> 291, tebc |-> 3,
      crc |-> Bits32, adler |-> Mixed, tpbc |-> U(65536)]}

AtMsb(v, last) == shl(v, 31 - last)

DeviceWrite(ST, cc, ce, celow, o) ==
    [ST EXCEPT
        !["csb_w0"] = storeBE(AtMsb({0}, 0) \cup AtMsb(U(cc), 23)
                              \cup AtMsb(U(ce), 26) \cup AtMsb(U(celow), 31)),
        !["tpbc"] = storeBE(o.tpbc),
        !["out_adler"] = storeBE(o.adler),
        !["out_crc"] = storeBE(o.crc),
        !["out_w2"] = storeBE(AtMsb(U(o.tebc), 15) \cup AtMsb(U(o.subc), 31)),
        !["out_w3"] = storeBE(AtMsb(U(o.sfbt), 15) \cup AtMsb(U(o.rembytecnt), 31))]

\* nxu_run_job returns: the device has written the status block (valid = 1)
\* and the output region.
DeviceComplete ==
    /\ phase = "inflight"
    /\ \E cc \in SampleCodes, ce \in 0..7, o \in OutSamples :
        mem' = DeviceWrite(mem, cc, ce, 0, o)
    /\ phase' = "completed"
    /\ UNCHANGED <<auxVars, le, shl_ub, pk, cfg, state, njobs, resume, outcome, err>>

DecodeUnchecked ==
    /\ phase \in {"inflight", "completed"}
    /\ LET o == Interpret(DecodeStatus(mem))
       IN /\ outcome' = o
          /\ state' = onCompletion(state, o)
          /\ resume' = IF o.kind = "Suspended" THEN DecodeOutput(mem) ELSE resume
          /\ phase' = "idle"
          /\ err' = "none"
    /\ UNCHANGED <<auxVars, le, shl_ub, pk, cfg, mem, njobs>>

\* decode, interpret, onCompletion: rejected until the valid flag is seen.
Decode ==
    /\ phase \in {"inflight", "completed"}
    /\ IF ~ValidSet(mem)
       THEN /\ err' = "NotCompleted"
            /\ UNCHANGED <<state, phase, resume, outcome>>
       ELSE LET o == Interpret(DecodeStatus(mem))
            IN /\ outcome' = o
               /\ state' = onCompletion(state, o)
               /\ resume' = IF o.kind = "Suspended" THEN DecodeOutput(mem) ELSE resume
               /\ phase' = "idle"
               /\ err' = "none"
    /\ UNCHANGED <<auxVars, le, shl_ub, pk, cfg, mem, njobs>>

Next == ClearValid \/ Advance \/ DeviceComplete \/ Decode
Spec == Init /\ [][Next]_vars

(***************************************************************************)
(* The stream claims                                                       *)
(***************************************************************************)
\* C3 as stated: on every resume submission each resume input field, read
\* back with the field accessor, equals the output field captured from the
\* previous job's Suspended outcome.
C3_ResumeVerbatim ==
    (njobs > 1 /\ phase = "inflight") =>
        /\ getnn(mem, "in_subc") = getnn(mem, "out_subc")
        /\ getnn(mem, "in_sfbt") = getnn(mem, "out_sfbt")
        /\ getnn(mem, "in_rembytecnt") = getnn(mem, "out_rembytecnt")
        /\ getnn(mem, "in_dhtlen") = getnn(mem, "out_dhtlen")

\* C3, amended: on every resume submission in_sfbt, in_rembytecnt and
\* in_dhtlen read back equal to out_sfbt, out_rembytecnt and out_dhtlen of
\* the previous job's Suspended outcome, and in_subc (3 bits) reads back as
\* the low 3 bits of the 16-bit out_subc.
C3_ResumeCarried ==
    (njobs > 1 /\ phase = "inflight") =>
        /\ resume = DecodeOutput(mem)
        /\ getnn(mem, "in_subc") = getnn(mem, "out_subc") \cap BelowBit(3)
        /\ getnn(mem, "in_sfbt") = getnn(mem, "out_sfbt")
        /\ getnn(mem, "in_rembytecnt") = getnn(mem, "out_rembytecnt")
        /\ getnn(mem, "in_dhtlen") = getnn(mem, "out_dhtlen")

C3_Witness ==
    /\ njobs = 2 /\ phase = "inflight"
    /\ getnn(mem, "out_subc") = U(2283) /\ getnn(mem, "in_subc") = U(3)
    /\ getnn(mem, "in_sfbt") = U(13)
    /\ getnn(mem, "in_rembytecnt") = U(291)

C5_Step ==
    state \in Terminal =>
        /\ state' = state
        /\ njobs' = njobs
        /\ phase' = "idle"
        /\ (Advance => err' = "StreamTerminated")
\* C5: once the stream is Finished or Faulted, every later advance fails
\* with StreamTerminated, the state never changes again and no further job
\* is handed to the collaborator.
C5_TerminalAbsorbing == [][C5_Step]_vars

C5_Witness ==
    /\ state = "Faulted" /\ err = "StreamTerminated"
    /\ njobs = 1 /\ phase = "idle" /\ ~ValidSet(mem)

\* C8: the first job carries a non-resume function code and the resume input
\* fields at their defaults (0); every later job carries the resume variant
\* of the same operation (compress 0x08/0x0a/0x0c/0x0e, decompress 0x14/0x16).
FcSubmitted == ToNat(getnn(mem, "gzip_fc"))
SameOperation(fc) ==
    /\ fc_is_compress(fc) <=> cfg.op = "Compress"
    /\ cfg.op = "Compress" =>
        /\ fc_has_count(fc) <=> cfg.wantCounts
        /\ ((U(fc) \cap U(2)) # {}) <=> cfg.huffman = "Dynamic"
    /\ cfg.op = "Decompress" => (((U(fc) \cap U(2)) # {}) <=> cfg.singleBlockSuspend)

C8_FunctionCodeSequencing ==
    /\ njobs = 1 =>
        /\ FcSubmitted \in (IF cfg.op = "Compress" THEN {0, 2, 4, 6} ELSE {16, 18})
        /\ SameOperation(FcSubmitted)
        /\ getnn(mem, "in_subc") = {} /\ getnn(mem, "in_sfbt") = {}
        /\ getnn(mem, "in_rembytecnt") = {} /\ getnn(mem, "in_dhtlen") = {}
    /\ njobs > 1 =>
        /\ FcSubmitted \in (IF cfg.op = "Compress" THEN {8, 10, 12, 14} ELSE {20, 22})
        /\ SameOperation(FcSubmitted)

C8_Witness ==
    /\ njobs = 2 /\ phase = "inflight" /\ cfg.op = "Decompress"
    /\ ~cfg.singleBlockSuspend /\ FcSubmitted = 20

\* C9: a non-resume job is encoded with CRC-32 seed 0 and Adler-32 seed 1; a
\* resume job with in_crc and in_adler equal to out_crc and out_adler of the
\* job before it.
C9_ChecksumSeeds ==
    /\ njobs = 1 =>
        /\ get32(mem, "in_crc") = {}
        /\ get32(mem, "in_adler") = {0}
    /\ (njobs > 1 /\ phase = "inflight") =>
        /\ get32(mem, "in_crc") = get32(mem, "out_crc")
        /\ get32(mem, "in_adler") = get32(mem, "out_adler")

C9_Witness ==
    /\ njobs = 2 /\ phase = "inflight" /\ le
    /\ get32(mem, "in_crc") = Mixed
    /\ get32(mem, "in_adler") = Bits32 \ Mixed

\* The valid bit as the hardware stores it: bit 0 of the status word.
HwValid(ST) == 7 \in ST["csb_w0"][1]

C10_Step ==
       /\ (njobs' = njobs + 1) => ~HwValid(mem) /\ ~HwValid(mem')
       /\ (Advance /\ state \notin Terminal /\ HwValid(mem)) =>
            /\ err' = "AlreadySubmitted"
            /\ mem' = mem /\ njobs' = njobs /\ phase' = phase
       /\ (Decode /\ ~HwValid(mem)) =>
            /\ err' = "NotCompleted"
            /\ outcome' = outcome /\ resume' = resume /\ state' = state
       /\ ((outcome' # outcome /\ outcome'.kind # "none") \/ resume' # resume
           \/ state' \in {"Suspended", "Finished", "Faulted"} \ {state}) =>
            /\ phase = "completed" /\ HwValid(mem)
\* C10: encode succeeds only on a block whose valid flag is clear and
\* otherwise fails with AlreadySubmitted leaving the block unchanged; decode
\* succeeds only once the completed job has set the valid flag and otherwise
\* fails with NotCompleted; no status or output field is read before.
C10_ValidHandshake == [][C10_Step]_vars

C10_Witness ==
    /\ err = "AlreadySubmitted" /\ state = "Suspended" /\ njobs = 1
    /\ HwValid(mem) /\ outcome.kind = "Suspended"

C10_WitnessNotCompleted ==
    /\ err = "NotCompleted" /\ phase = "inflight" /\ njobs = 2

(***************************************************************************)
(* The completion interpreter over every status the device can write:      *)
(* every 8-bit completion code, every completion extension.                *)
(***************************************************************************)
InitInterp ==
    /\ le \in BOOLEAN
    /\ shl_ub = {}
    /\ pk = PkIdle
    /\ cfg \in StreamConfigs
    /\ cfg.op = "Compress" /\ cfg.huffman = "Dynamic" /\ ~cfg.wantCounts
    /\ state = "InProgress"
    /\ phase = "completed"
    /\ njobs = 1
    /\ resume = NoResume
    /\ outcome = [kind |-> "none"]
    /\ err = "none"
    /\ AuxIdle
    /\ \E cc \in 0..255, ce \in 0..7, celow \in {0, 31} :
        mem = DeviceWrite(
                Encode(clear_regs,
                       Resolve(cfg.op, cfg.huffman, cfg.wantCounts, FALSE,
                               cfg.singleBlockSuspend),
                       FreshParams),
                cc, ce, celow,
                [subc |-> 5, sfbt |-> 9, rembytecnt |-> 65535, tebc |-> 7,
                 crc |-> Mixed, adler |-> Bits32 \ Mixed, tpbc |-> U(4096)])

SpecInterp == InitInterp /\ [][Decode]_vars

\* The status word as the hardware lays it out: completion code in bits
\* 16:23, completion extension ce(0:2) in bits 24:26.
HwCC(ST) == ToNat(ST["csb_w0"][3])
HwCE(ST) == ToNat({b - 5 : b \in {c \in ST["csb_w0"][4] : c >= 5}})
Interpreted == phase = "idle" /\ outcome.kind # "none"

MAX_DDE_COUNT == 256

\* The sum of the fragment lengths lo..hi, and of all of them.
RECURSIVE LengthOf(_, _, _)
LengthOf(bufs, lo, hi) ==
    IF lo > hi THEN 0
    ELSE IF lo = hi THEN bufs[lo].length
    ELSE LET mid == (lo + hi) \div 2
         IN LengthOf(bufs, lo, mid) + LengthOf(bufs, mid + 1, hi)
TotalLength(bufs) == LengthOf(bufs, 1, Len(bufs))

nx_dde_t == [w \in {"dde_count", "ddebc"} |-> storeBE({})]

\* describe(buffers): the descriptor's kind, or the error, and the nx_dde_t.
Describe(bufs) ==
    IF Len(bufs) = 1
    THEN [kind |-> "Direct", address |-> bufs[1].address,
          dde |-> put32(putnn(nx_dde_t, "dde_count", U(0)), "ddebc", U(bufs[1].length))]
    ELSE IF Len(bufs) > MAX_DDE_COUNT
    THEN [kind |-> "TooManyFragments", address |-> 0, dde |-> nx_dde_t]
    ELSE [kind |-> "Indirect", address |-> bufs[1].address,
          dde |-> put32(putnn(nx_dde_t, "dde_count", U(Len(bufs))), "ddebc",
                        U(TotalLength(bufs)))]

\* The buffer lists given: 1 to MAX_DDE_COUNT + 2 fragments laid end to end,
\* their lengths cycling through one of a few patterns.
MaxBuffers == MAX_DDE_COUNT + 2
LengthPatterns == {<<4096>>, <<1, 65535>>, <<512, 0, 7>>}
BufferList(n, pat) ==
    [i \in 1..n |-> [address |-> 4096 * i, length |-> pat[((i - 1) % Len(pat)) + 1]]]

InitDescribe ==
    /\ le \in BOOLEAN
    /\ shl_ub = {}
    /\ pk = PkIdle
    /\ mem = clear_regs
    /\ StreamIdle
    /\ \E n \in 1..MaxBuffers, pat \in LengthPatterns :
        dd = [pc |-> "start", bufs |-> BufferList(n, pat), out |-> [kind |-> "none"]]
    /\ rc = Off /\ lay = Off /\ cex = Off /\ td = Off

DescribeCall ==
    /\ dd.pc = "start"
    /\ dd' = [dd EXCEPT !.pc = "done", !.out = Describe(dd.bufs)]
    /\ UNCHANGED <<le, shl_ub, mem, pk, streamVars, rc, lay, cex, td>>

SpecDescribe == InitDescribe /\ [][DescribeCall]_vars

Described == dd.pc = "done"
NBuffers == Len(dd.bufs)

\* C11: describe of one buffer returns a Direct descriptor (dde_count reads
\* 0); of N buffers, 2 <= N <= MAX_DDE_COUNT, an Indirect descriptor whose
\* dde_count reads back as N (> 0) and whose ddebc is the sum of the fragment
\* lengths; of more than MAX_DDE_COUNT buffers it fails with TooManyFragments.
C11_Describe ==
    Described =>
        /\ NBuffers = 1 =>
                /\ dd.out.kind = "Direct"
                /\ getnn(dd.out.dde, "dde_count") = U(0)
                /\ get32(dd.out.dde, "ddebc") = U(dd.bufs[1].length)
        /\ (2 <= NBuffers /\ NBuffers <= MAX_DDE_COUNT) =>
                /\ dd.out.kind = "Indirect"
                /\ getnn(dd.out.dde, "dde_count") = U(NBuffers)
                /\ getnn(dd.out.dde, "dde_count") # U(0)
                /\ get32(dd.out.dde, "ddebc") = U(TotalLength(dd.bufs))
        /\ NBuffers > MAX_DDE_COUNT => dd.out.kind = "TooManyFragments"

\* The part of C11 that holds: everything but the count of a list of exactly
\* MAX_DDE_COUNT fragments, which does not fit the 8-bit dde_count field.
C11_DescribeBelowMax ==
    Described =>
        /\ NBuffers = 1 =>
                /\ dd.out.kind = "Direct"
                /\ getnn(dd.out.dde, "dde_count") = U(0)
                /\ get32(dd.out.dde, "ddebc") = U(dd.bufs[1].length)
        /\ (2 <= NBuffers /\ NBuffers <= MAX_DDE_COUNT) =>
                /\ dd.out.kind = "Indirect"
                /\ NBuffers < MAX_DDE_COUNT =>
                        getnn(dd.out.dde, "dde_count") = U(NBuffers)
                /\ get32(dd.out.dde, "ddebc") = U(TotalLength(dd.bufs))
        /\ NBuffers > MAX_DDE_COUNT => dd.out.kind = "TooManyFragments"

\* A list of exactly MAX_DDE_COUNT fragments is accepted as Indirect and its
\* dde_count reads back 0, the mark of a direct dde.
C11_Witness ==
    /\ Described /\ NBuffers = MAX_DDE_COUNT
    /\ dd.out.kind = "Indirect"
    /\ getnn(dd.out.dde, "dde_count") = U(0)


(***************************************************************************)
(* resolve over every combination of its arguments, the code it returns    *)
(* stored in the request block's gzip_fc field.                            *)
(***************************************************************************)
Huffman == {"Fixed", "Dynamic"}
Ops == {"Compress", "Decompress", "Wrap"}

InitResolve ==
    /\ le \in BOOLEAN
    /\ shl_ub = {}
    /\ pk = PkIdle
    /\ mem = clear_regs
    /\ StreamIdle
    /\ \E op \in Ops, h \in Huffman, wc \in BOOLEAN, r \in BOOLEAN, sbs \in BOOLEAN :
        rc = [pc |-> "start", op |-> op, huffman |-> h, wantCounts |-> wc,
              resume |-> r, singleBlockSuspend |-> sbs, fc |-> 0]
    /\ dd = Off /\ lay = Off /\ cex = Off /\ td = Off

ResolveCall ==
    /\ rc.pc = "start"
    /\ LET fc == Resolve(rc.op, rc.huffman, rc.wantCounts, rc.resume, rc.singleBlockSuspend)
       IN /\ rc' = [rc EXCEPT !.pc = "done", !.fc = fc]
          /\ mem' = putnn(mem, "gzip_fc", U(fc))
    /\ UNCHANGED <<le, shl_ub, pk, streamVars, dd, lay, cex, td>>

SpecResolve == InitResolve /\ [][ResolveCall]_vars

Resolved == rc.pc = "done"

M(name, type, count) == [name |-> name, type |-> type, count |-> count]
Scalar(size) == [kind |-> "scalar", size |-> size, aligned |-> size, members |-> <<>>]
Struct(aligned, members) == [kind |-> "struct", size |-> 0, aligned |-> aligned, members |-> members]
Union(aligned, members) == [kind |-> "union", size |-> 0, aligned |-> aligned, members |-> members]

\* The anonymous unions of 32-bit register views are named after their
\* first member.
TypeDef(t) ==
    CASE t = "uint32_t" -> Scalar(4)
      [] t = "uint64_t" -> Scalar(8)
      [] t = "nx_qw_t" ->
            Union(16, <<M("word", "uint32_t", 4), M("dword", "uint64_t", 2)>>)
      [] t = "union dde_count" -> Union(1, <<M("dde_count", "uint32_t", 1)>>)
      [] t = "nx_dde_t" ->
            Struct(16, <<M("dde_count", "union dde_count", 1), M("ddebc", "uint32_t", 1),
                         M("ddead", "uint64_t", 1)>>)
      [] t = "union csb_v" ->
            Union(1, <<M("csb_v", "uint32_t", 1), M("csb_f", "uint32_t", 1),
                       M("csb_cs", "uint32_t", 1), M("csb_cc", "uint32_t", 1),
                       M("csb_ce", "uint32_t", 1)>>)
      [] t = "nx_csb_t" ->
            Struct(16, <<M("csb_v", "union csb_v", 1), M("tpbc", "uint32_t", 1),
                         M("fsaddr", "uint64_t", 1)>>)
      [] t = "union ccb_cm" ->
            Union(1, <<M("ccb_cm", "uint32_t", 1), M("word", "uint32_t", 1)>>)
      [] t = "nx_ccb_t" ->
            Struct(16, <<M("reserved", "uint32_t", 3), M("ccb_cm", "union ccb_cm", 1)>>)
      [] t = "union vas_buf_num" ->
            Union(1, <<M("vas_buf_num", "uint32_t", 1), M("send_wc_id", "uint32_t", 1)>>)
      [] t = "union recv_wc_id" -> Union(1, <<M("recv_wc_id", "uint32_t", 1)>>)
      [] t = "union vas_invalid" -> Union(1, <<M("vas_invalid", "uint32_t", 1)>>)
      [] t = "vas_stamped_crb_t" ->
            Struct(1, <<M("vas_buf_num", "union vas_buf_num", 1),
                        M("recv_wc_id", "union recv_wc_id", 1),
                        M("reserved2", "uint32_t", 1),
                        M("vas_invalid", "union vas_invalid", 1)>>)
      [] t = "union nxsf_t" ->
            Union(1, <<M("nxsf_t", "uint32_t", 1), M("nxsf_fs", "uint32_t", 1)>>)
      [] t = "nx_stamped_fault_crb_t" ->
            Struct(1, <<M("fsa", "uint64_t", 1), M("nxsf_t", "union nxsf_t", 1),
                        M("pswid", "uint32_t", 1)>>)
      [] t = "stamped_crb_t" ->
            Union(1, <<M("vas", "vas_stamped_crb_t", 1), M("nx", "nx_stamped_fault_crb_t", 1)>>)
      [] t = "union gzip_fc" -> Union(1, <<M("gzip_fc", "uint32_t", 1)>>)
      [] t = "union crb_c" ->
            Union(1, <<M("crb_c", "uint32_t", 1), M("crb_at", "uint32_t", 1)>>)
      [] t = "struct reserved2" ->
            Struct(1, <<M("reserved2", "uint32_t", 1), M("crb_c", "union crb_c", 1)>>)
      [] t = "union csb_address" ->
            Union(1, <<M("csb_address", "uint64_t", 1), M("reserved2", "struct reserved2", 1)>>)
      [] t = "union reserved64" ->
            Union(1, <<M("reserved64", "nx_qw_t", 11), M("stamp", "stamped_crb_t", 1)>>)
      [] t = "nx_gzip_crb_t" ->
            Struct(128, <<M("gzip_fc", "union gzip_fc", 1), M("reserved1", "uint32_t", 1),
                          M("csb_address", "union csb_address", 1),
                          M("source_dde", "nx_dde_t", 1), M("target_dde", "nx_dde_t", 1),
                          M("ccb", "nx_ccb_t", 1), M("reserved64", "union reserved64", 1),
                          M("csb", "nx_csb_t", 1)>>)

Largest(S) == CHOOSE x \in S : \A y \in S : y <= x
Smallest(S) == CHOOSE x \in S : \A y \in S : x <= y
AlignUp(n, a) == ((n + a - 1) \div a) * a

\* sizeof a union before padding, given the sizes of its members.
union_extent_smallest(sizes) == Smallest(sizes)
union_extent(sizes) == Largest(sizes)

RECURSIVE AlignOf(_)
AlignOf(t) ==
    LET d == TypeDef(t)
    IN Largest({d.aligned} \cup {AlignOf(d.members[i].type) : i \in DOMAIN d.members})

\* sizeof, and the offset of the first k members' end in a struct.
RECURSIVE SizeOf(_), EndOf(_, _)
SizeOf(t) ==
    LET d == TypeDef(t)
    IN CASE d.kind = "scalar" -> d.size
         [] d.kind = "union" ->
               AlignUp(union_extent({SizeOf(d.members[i].type) * d.members[i].count :
                                     i \in DOMAIN d.members}), AlignOf(t))
         [] d.kind = "struct" -> AlignUp(EndOf(t, Len(d.members)), AlignOf(t))
EndOf(t, k) ==
    IF k = 0 THEN 0
    ELSE LET m == TypeDef(t).members[k]
         IN AlignUp(EndOf(t, k - 1), AlignOf(m.type)) + SizeOf(m.type) * m.count

\* The structs laid out, each at a few block addresses aligned for the
\* combined request and parameter block.
Structs ==
    {"nx_dde_t", "nx_csb_t", "nx_ccb_t", "vas_stamped_crb_t",
     "nx_stamped_fault_crb_t", "struct reserved2", "nx_gzip_crb_t"}
MaxBlocks == 4
BlockAddresses == {2048 * k : k \in 0..(MaxBlocks - 1)}

InitLayout ==
    /\ le \in BOOLEAN
    /\ shl_ub = {}
    /\ pk = PkIdle
    /\ mem = clear_regs
    /\ StreamIdle
    /\ \E t \in Structs, b \in BlockAddresses :
        lay = [pc |-> "members", type |-> t, base |-> b, at |-> <<>>, end |-> 0, size |-> 0]
    /\ dd = Off /\ rc = Off /\ cex = Off /\ td = Off

\* The next member goes at the next offset aligned for its type.
LayMember ==
    /\ lay.pc = "members"
    /\ Len(lay.at) < Len(TypeDef(lay.type).members)
    /\ LET m == TypeDef(lay.type).members[Len(lay.at) + 1]
           o == AlignUp(lay.end, AlignOf(m.type))
       IN lay' = [lay EXCEPT !.at = Append(@, o), !.end = o + SizeOf(m.type) * m.count]
    /\ UNCHANGED <<le, shl_ub, mem, pk, streamVars, dd, rc, cex, td>>

\* After the last member the struct is padded to its alignment.
LayEnd ==
    /\ lay.pc = "members"
    /\ Len(lay.at) = Len(TypeDef(lay.type).members)
    /\ lay' = [lay EXCEPT !.pc = "done", !.size = AlignUp(lay.end, AlignOf(lay.type))]
    /\ UNCHANGED <<le, shl_ub, mem, pk, streamVars, dd, rc, cex, td>>

NextLayout == LayMember \/ LayEnd
SpecLayout == InitLayout /\ [][NextLayout]_vars

CrbLaidOut == lay.pc = "done" /\ lay.type = "nx_gzip_crb_t"

InitCE ==
    /\ le \in BOOLEAN
    /\ shl_ub = {}
    /\ pk = PkIdle
    /\ cfg = [op |-> "Compress", huffman |-> "Dynamic", wantCounts |-> FALSE,
              singleBlockSuspend |-> FALSE]
    /\ state = "InProgress"
    /\ phase = "completed"
    /\ njobs = 1
    /\ resume = NoResume
    /\ outcome = [kind |-> "none"]
    /\ err = "none"
    /\ \E cc \in SampleCodes, ce \in 0..7, celow \in {0, 31}, o \in OutSamples :
        mem = DeviceWrite(clear_regs, cc, ce, celow, o)
    /\ cex = [pc |-> "start", X |-> {}, termination |-> FALSE, partial |-> FALSE,
              tpbc_valid |-> FALSE, cc64 |-> FALSE]
    /\ dd = Off /\ rc = Off /\ lay = Off /\ td = Off

CheckCE ==
    /\ cex.pc = "start"
    /\ ValidSet(mem)
    /\ LET X == get_csb_ce_ms3b(mem)
       IN cex' = [pc |-> "done", X |-> X,
                  termination |-> csb_ce_termination(X),
                  partial |-> csb_ce_partial_completion(X),
                  tpbc_valid |-> csb_ce_tpbc_valid(X),
                  cc64 |-> csb_ce_cc64(X)]
    /\ UNCHANGED <<le, shl_ub, mem, pk, streamVars, dd, rc, lay, td>>

SpecCE == InitCE /\ [][CheckCE]_vars

\* C15: csb_ce_cc64(X) is true exactly when both the CSB_CE_PARTIAL and the
\* CSB_CE_TERMINATE bits are clear in X, for every 3-bit completion
\* extension X.
C15_Cc64BothClear ==
    cex.pc = "done" =>
        (cex.cc64 <=> (CSB_CE_PARTIAL \notin {2 ^ b : b \in cex.X}
                       /\ CSB_CE_TERMINATE \notin {2 ^ b : b \in cex.X}))

\* A completion extension with both bits clear, as a CC=64 completion
\* carries, for which csb_ce_cc64 is false.
C15_Witness ==
    /\ cex.pc = "done" /\ HwCC(mem) = ERR_NX_TPBC_GT_SPBC /\ HwCE(mem) = CSB_CE_TPBC_VALID
    /\ cex.X = U(CSB_CE_TPBC_VALID)
    /\ ~cex.partial /\ ~cex.termination /\ cex.tpbc_valid
    /\ ~cex.cc64


(***************************************************************************)
(* nx_time_diff.  A uint64_t is its four 16-bit limbs, least significant   *)
(* first; - and + wrap modulo 2^64 as unsigned arithmetic does.            *)
(***************************************************************************)
Limb == 2 ^ 16
Limbs == 1..4

\* The borrow out of, and the carry out of, limb i.
RECURSIVE Borrow(_, _, _), Carry(_, _, _)
Borrow(a, b, i) ==
    IF i = 0 THEN 0 ELSE IF a[i] - b[i] - Borrow(a, b, i - 1) < 0 THEN 1 ELSE 0
Carry(a, b, i) ==
    IF i = 0 THEN 0 ELSE IF a[i] + b[i] + Carry(a, b, i - 1) >= Limb THEN 1 ELSE 0

sub64(a, b) == [i \in Limbs |-> (a[i] - b[i] - Borrow(a, b, i - 1) + Limb) % Limb]
add64(a, b) == [i \in Limbs |-> (a[i] + b[i] + Carry(a, b, i - 1)) % Limb]
ge64(a, b) == Borrow(a, b, 4) = 0

\* 0xFFFFFFFFFFFFFFF, fifteen F digits.
TimeDiffWrap == <<65535, 65535, 65535, 4095>>

nx_time_diff(t1, t2) ==
    IF ge64(t2, t1) THEN sub64(t2, t1) ELSE add64(sub64(TimeDiffWrap, t1), t2)

\* Timebase reads: around zero, around the top of the register, around the
\* constant of the wrap branch, and in between.
TimebaseReads ==
    {<<0, 0, 0, 0>>, <<1, 0, 0, 0>>, <<2, 0, 0, 0>>, <<65535, 0, 0, 0>>,
     <<0, 1, 0, 0>>, <<4660, 22136, 39612, 57072>>, <<0, 0, 0, 32768>>,
     <<65535, 65535, 65535, 4095>>, <<0, 0, 0, 4096>>,
     <<65534, 65535, 65535, 65535>>, <<65535, 65535, 65535, 65535>>}

InitTime ==
    /\ le \in BOOLEAN
    /\ shl_ub = {}
    /\ pk = PkIdle
    /\ mem = clear_regs
    /\ StreamIdle
    /\ \E t1 \in TimebaseReads, t2 \in TimebaseReads :
        td = [pc |-> "start", t1 |-> t1, t2 |-> t2, diff |-> <<0, 0, 0, 0>>]
    /\ dd = Off /\ rc = Off /\ lay = Off /\ cex = Off

TimeDiff ==
    /\ td.pc = "start"
    /\ td' = [td EXCEPT !.pc = "done", !.diff = nx_time_diff(td.t1, td.t2)]
    /\ UNCHANGED <<le, shl_ub, mem, pk, streamVars, dd, rc, lay, cex>>

SpecTime == InitTime /\ [][TimeDiff]_vars

\* C16: nx_time_diff(t1, t2) is the number of ticks between the read t1 and
\* the later read t2 for all 64-bit readings, also when the register wrapped
\* between them (t2 < t1): it equals (t2 - t1) mod 2^64.
C16_TicksElapsed ==
    td.pc = "done" => td.diff = sub64(td.t2, td.t1)

\* The register wrapped from its last value to 0: one tick elapsed, and
\* nx_time_diff returns 2^60.
C16_Witness ==
    /\ td.pc = "done"
    /\ td.t1 = <<65535, 65535, 65535, 65535>> /\ td.t2 = <<0, 0, 0, 0>>
    /\ sub64(td.t2, td.t1) = <<1, 0, 0, 0>>
    /\ td.diff = <<0, 0, 0, 4096>>

\* Without a wrap between the reads the difference is the ticks elapsed.
C16_NoWrap ==
    (td.pc = "done" /\ ge64(td.t2, td.t1)) =>
        /\ td.diff = sub64(td.t2, td.t1)
        /\ add64(td.t1, td.diff) = td.t2

====
